---- MODULE Spec2Model ----
(***************************************************************************)
(* Model of the training-history aggregation of distkeras/utils.py:        *)
(* history_executor (filter one worker's records, sort them by iteration)  *)
(* and history_executors_average (average the workers' metrics position by *)
(* position).  A record is [worker_id, iteration, history]; `history` is   *)
(* the metrics vector, a sequence of integers.  An averaged element is the *)
(* exact quotient sum / num_executors kept as a reduced fraction <<n, d>>; *)
(* <<0, 0>> is the NaN that numpy produces for 0.0 / 0.                    *)
(***************************************************************************)
EXTENDS Integers, Sequences, FiniteSets, TLC

VARIABLES history, pc, averaged, previous, executor_id, executor_history

vars == <<history, pc, averaged, previous, executor_id, executor_history>>

(* ---------------------------- bounds ----------------------------------- *)

MaxLen == 3

MaxWorkerId == 1

MaxIterationValue == 2

(* np.zeros(2): the accumulator's width *)
Width == 2

WorkerIds == 0..MaxWorkerId

IterationValues == 0..MaxIterationValue

(* metrics vectors of the accumulator's width, and of widths 1 and 3 *)
MetricVectors == {<<1, 2>>, <<3, 4>>, <<5>>, <<1, 2, 3>>}

Records == [worker_id : WorkerIds, iteration : IterationValues, history : MetricVectors]

(* the records of a run whose metrics all have the accumulator's width *)
UniformRecords == {r \in Records : Len(r.history) = Width}

BoundedSeq(S, n) == UNION {[1..k -> S] : k \in 0..n}

(* ---------------------------- arithmetic ------------------------------- *)

RECURSIVE Gcd(_, _)
Gcd(a, b) == IF b = 0 THEN a ELSE Gcd(b, a % b)

(* float division n / d of a non-negative sum by a count: 0/0 is NaN <<0, 0>>,
   x/0 is inf <<1, 0>>, otherwise the exact quotient in lowest terms *)
Divide(n, d) ==
    IF d = 0 THEN <<IF n = 0 THEN 0 ELSE 1, 0>>
    ELSE <<n \div Gcd(n, d), d \div Gcd(n, d)>>

(* numpy's in-place `sum += v` on a vector of Width elements: v of the same
   width is added element-wise, v of width 1 is broadcast to every element,
   any other width raises ValueError *)
Broadcastable(v) == Len(v) = Width \/ Len(v) = 1

InPlaceAdd(sum, v) ==
    [k \in 1..Width |-> sum[k] + (IF Len(v) = 1 THEN v[1] ELSE v[k])]

Zeros == [k \in 1..Width |-> 0]

(* ---------------------------- history_executor ------------------------- *)

(* list.sort(key=iteration) is stable: a record goes after every record whose
   iteration is not greater than its own *)
RECURSIVE InsertByIteration(_, _)
InsertByIteration(sorted, r) ==
    IF sorted = <<>> THEN <<r>>
    ELSE IF r.iteration < Head(sorted).iteration THEN <<r>> \o sorted
    ELSE <<Head(sorted)>> \o InsertByIteration(Tail(sorted), r)

RECURSIVE SortByIteration(_)
SortByIteration(s) ==
    IF s = <<>> THEN <<>>
    ELSE InsertByIteration(SortByIteration(SubSeq(s, 1, Len(s) - 1)), s[Len(s)])

(* variant: the comparison of the filter is <= instead of == *)
FilterWorkerUpTo(h, id) == SelectSeq(h, LAMBDA r : r.worker_id <= id)

(* [h for h in history if h['worker_id'] == id] *)
FilterWorker(h, id) == SelectSeq(h, LAMBDA r : r.worker_id = id)

(* variant: the sort is left out *)
history_executor_unsorted(h, id) == FilterWorker(h, id)

history_executor(h, id) == SortByIteration(FilterWorker(h, id))

(* ---------------------------- history_executors_average ---------------- *)

RECURSIVE MaxOf(_)
MaxOf(S) == LET x == CHOOSE y \in S : TRUE
            IN IF S = {x} THEN x
               ELSE LET m == MaxOf(S \ {x}) IN IF x > m THEN x ELSE m

max_iteration_of(h) == MaxOf({h[k].iteration : k \in 1..Len(h)})

max_executor_of(h) == MaxOf({h[k].worker_id : k \in 1..Len(h)})

(* histories[j + 1] is the code's histories[j], for j in range(0, max_executor) *)
histories_of(h) == [j \in 1..max_executor_of(h) |-> history_executor(h, j - 1)]

(* the inner loop `for j in range(0, max_executor)` from j on, for output index i
   (0-based); acc = [ok, num_executors, sum, summed] *)
RECURSIVE inner_loop(_, _, _, _)
inner_loop(histories, i, j, acc) ==
    IF j >= Len(histories) \/ ~acc.ok THEN acc
    ELSE IF Len(histories[j + 1]) - 1 >= i
         THEN LET r == histories[j + 1][i + 1] IN
              IF Broadcastable(r.history)
              THEN inner_loop(histories, i, j + 1,
                      [ok |-> TRUE,
                       num_executors |-> acc.num_executors + 1,
                       sum |-> InPlaceAdd(acc.sum, r.history),
                       summed |-> Append(acc.summed, [worker |-> j, record |-> r])])
              ELSE [acc EXCEPT !.ok = FALSE]
         ELSE inner_loop(histories, i, j + 1, acc)

(* the outer loop `for i in range(0, max_iteration)` from i on *)
RECURSIVE outer_loop(_, _, _, _)
outer_loop(histories, i, max_iteration, out) ==
    IF i >= max_iteration THEN out
    ELSE LET acc == inner_loop(histories, i, 0,
                       [ok |-> TRUE, num_executors |-> 0, sum |-> Zeros, summed |-> <<>>])
         IN IF ~acc.ok
            THEN [status |-> "ValueError", raised_at |-> 107, averaged_history |-> <<>>,
                  num_executors |-> <<>>, summed |-> <<>>]
            ELSE outer_loop(histories, i + 1, max_iteration,
                    [out EXCEPT
                       !.averaged_history =
                           Append(@, [k \in 1..Width |-> Divide(acc.sum[k], acc.num_executors)]),
                       !.num_executors = Append(@, acc.num_executors),
                       !.summed = Append(@, acc.summed)])

NoResult == [status |-> "none", raised_at |-> 0, averaged_history |-> <<>>,
             num_executors |-> <<>>, summed |-> <<>>]

(* variant: max(..., default=0), so that no record gives an empty curve *)
history_executors_average_default(h) ==
    IF h = <<>>
    THEN [status |-> "ok", raised_at |-> 0, averaged_history |-> <<>>,
          num_executors |-> <<>>, summed |-> <<>>]
    ELSE outer_loop(histories_of(h), 0, max_iteration_of(h),
                    [status |-> "ok", raised_at |-> 0, averaged_history |-> <<>>,
                     num_executors |-> <<>>, summed |-> <<>>])

(* max() of an empty list raises ValueError on the first statement *)
history_executors_average(h) ==
    IF h = <<>>
    THEN [status |-> "ValueError", raised_at |-> 93, averaged_history |-> <<>>,
          num_executors |-> <<>>, summed |-> <<>>]
    ELSE outer_loop(histories_of(h), 0, max_iteration_of(h),
                    [status |-> "ok", raised_at |-> 0, averaged_history |-> <<>>,
                     num_executors |-> <<>>, summed |-> <<>>])

(* ---------------------------- state machine ---------------------------- *)

Start ==
    /\ pc = "snapshot"
    /\ averaged = NoResult
    /\ previous = NoResult
    /\ executor_id = 0
    /\ executor_history = <<>>

(* any snapshot of at most MaxLen records, in any order *)
Init ==
    /\ history \in BoundedSeq(Records, MaxLen)
    /\ Start

(* any snapshot of a run whose records all have the accumulator's width *)
InitUniform ==
    /\ history \in BoundedSeq(UniformRecords, MaxLen)
    /\ Start

(* a caller runs history_executors_average on the snapshot *)
CallAverage ==
    /\ pc \in {"snapshot", "reordered"}
    /\ averaged' = history_executors_average(history)
    /\ pc' = IF pc = "snapshot" THEN "averaged" ELSE "reaveraged"
    /\ UNCHANGED <<history, previous, executor_id, executor_history>>

(* a caller runs history_executor on the snapshot for some identity *)
CallExecutor(id) ==
    /\ pc = "snapshot"
    /\ executor_id' = id
    /\ executor_history' = history_executor(history, id)
    /\ pc' = "indexed"
    /\ UNCHANGED <<history, averaged, previous>>

(* the same records are delivered in another order: two neighbours trade places *)
Reorder(a) ==
    /\ pc = "averaged"
    /\ a + 1 <= Len(history)
    /\ history' = [history EXCEPT ![a] = history[a + 1], ![a + 1] = history[a]]
    /\ previous' = averaged
    /\ pc' = "reordered"
    /\ UNCHANGED <<averaged, executor_id, executor_history>>

Next ==
    \/ CallAverage
    \/ \E id \in 0..(MaxWorkerId + 1) : CallExecutor(id)
    \/ \E a \in 1..MaxLen : Reorder(a)

Spec == Init /\ [][Next]_vars

SpecUniform == InitUniform /\ [][Next]_vars

(* ---------------------------- claims ----------------------------------- *)

Returned == pc \in {"averaged", "reaveraged"} /\ averaged.status = "ok"

(* the 1-based indices of the averaged sequence (index i is the code's i - 1) *)
Positions == 1..Len(averaged.averaged_history)

Occurrences(s, r) == Cardinality({k \in 1..Len(s) : s[k] = r})

RangeOf(s) == {s[k] : k \in 1..Len(s)}

SummedWorkers(i) == {averaged.summed[i][k].worker : k \in 1..Len(averaged.summed[i])}

(* the metrics vector v as the averaged vector v / 1 *)
AsAveraged(v) == [k \in 1..Width |-> Divide(v[k], 1)]

AllUniform == \A k \in 1..Len(history) : Len(history[k].history) = Width

(* C1: two workers 0 and 1, one record each with metrics [1, 2] and [3, 4],
   give [2, 3] at index 0; and every worker from 0 up to and including the
   highest observed worker_id is summed at each position it has a record for *)
C1_AllWorkersContribute ==
    pc = "averaged" /\ history # <<>> /\ AllUniform =>
        /\ averaged.status = "ok"
        /\ (/\ Len(history) = 2
            /\ \E a, b \in 1..2 :
                  /\ history[a].worker_id = 0 /\ history[a].history = <<1, 2>>
                  /\ history[b].worker_id = 1 /\ history[b].history = <<3, 4>>)
           => /\ Len(averaged.averaged_history) >= 1
              /\ averaged.averaged_history[1] = <<<<2, 1>>, <<3, 1>>>>
        /\ \A i \in Positions : \A w \in 0..max_executor_of(history) :
              Len(history_executor(history, w)) >= i => w \in SummedWorkers(i)

(* C2: at every output index the divisor is the number of workers whose sorted
   sequence reaches that index *)
C2_DivisorIsContributorCount ==
    Returned =>
        \A i \in Positions :
            averaged.num_executors[i] =
                Cardinality({w \in WorkerIds : Len(history_executor(history, w)) >= i})

(* C3: for a non-empty input the number of averaged vectors is max(iteration) + 1 *)
C3_LengthIsMaxIterationPlusOne ==
    Returned /\ history # <<>> =>
        Len(averaged.averaged_history) = max_iteration_of(history) + 1

(* C4: one worker alone with N >= 1 records gets its own metrics sequence,
   sorted by iteration, back *)
C4_SingleWorkerIdentity ==
    /\ pc = "averaged"
    /\ history # <<>>
    /\ AllUniform
    /\ \A k \in 1..Len(history) : history[k].worker_id = history[1].worker_id
    => /\ averaged.status = "ok"
       /\ averaged.averaged_history =
             [i \in 1..Len(history) |->
                 AsAveraged(history_executor(history, history[1].worker_id)[i].history)]

(* C5: history_executor returns exactly the records of the worker asked for,
   each as often as the input holds it, by non-decreasing iteration; the empty
   sequence when the worker has no record *)
C5_ExecutorHistoryFilteredSorted ==
    pc = "indexed" =>
        /\ \A r \in RangeOf(history) \cup RangeOf(executor_history) :
              Occurrences(executor_history, r) =
                  IF r.worker_id = executor_id THEN Occurrences(history, r) ELSE 0
        /\ \A k \in 1..(Len(executor_history) - 1) :
              executor_history[k].iteration <= executor_history[k + 1].iteration
        /\ (\A k \in 1..Len(history) : history[k].worker_id # executor_id)
              => executor_history = <<>>

(* the worker asked for has records that arrive out of order among others' *)
C5_Witness ==
    /\ pc = "indexed"
    /\ Len(executor_history) >= 2
    /\ Len(executor_history) < Len(history)
    /\ executor_history # FilterWorker(history, executor_id)

(* the worker asked for has no record *)
C5_WitnessEmpty ==
    /\ pc = "indexed"
    /\ history # <<>>
    /\ executor_history = <<>>

(* what a caller of history_executors_average observes *)
Outcome(res) == <<res.status, res.averaged_history>>

(* no worker has two records with the same iteration and different metrics *)
NoConflictingDuplicates ==
    \A a, b \in 1..Len(history) :
        history[a].worker_id = history[b].worker_id
        /\ history[a].iteration = history[b].iteration
        => history[a].history = history[b].history

(* C6 as stated: reordering the records never changes the averaged sequence,
   duplicates of one iteration with different metrics included *)
C6_OrderIndependent ==
    pc = "reaveraged" => Outcome(averaged) = Outcome(previous)

(* C6 amended: reordering the records does not change the averaged sequence
   when no worker has two records with the same iteration and different metrics *)
C6_OrderIndependentWithoutConflicts ==
    pc = "reaveraged" /\ NoConflictingDuplicates => Outcome(averaged) = Outcome(previous)

(* records without conflicting duplicates were reordered, a summed worker's
   records are out of order in the new input, and an average came back whose
   first two vectors differ *)
C6_Witness ==
    /\ pc = "reaveraged"
    /\ NoConflictingDuplicates
    /\ averaged.status = "ok"
    /\ Len(averaged.averaged_history) >= 2
    /\ averaged.num_executors[2] >= 1
    /\ averaged.averaged_history[1] # averaged.averaged_history[2]
    /\ FilterWorker(history, 0) # history_executor(history, 0)

(* C7: with no record the call raises on its first statement, before any range
   is computed, and returns no curve *)
C7_EmptyInputRaises ==
    pc \in {"averaged", "reaveraged"} /\ history = <<>> =>
        /\ averaged.status = "ValueError"
        /\ averaged.raised_at = 93
        /\ averaged.averaged_history = <<>>
        /\ averaged.num_executors = <<>>

(* the call on no record has been made *)
C7_Witness == pc = "averaged" /\ history = <<>>

(* C8: no averaged vector is the outcome of a division by a zero contributor
   count *)
C8_NoZeroContributorDivision ==
    Returned =>
        \A i \in Positions :
            /\ averaged.num_executors[i] # 0
            /\ \A k \in 1..Width : averaged.averaged_history[i][k] # <<0, 0>>

(* C9: a record whose metrics width is not the accumulator's makes the call
   raise and return nothing, wherever the record sits *)
C9_WidthMismatchRejected ==
    /\ pc = "averaged"
    /\ \E k \in 1..Len(history) : Len(history[k].history) # Width
    => averaged.status = "ValueError" /\ averaged.averaged_history = <<>>

(* C10: worker w is summed at output index i exactly when it has more than i
   records, and what is summed is its record at position i of its own
   iteration-sorted sequence, whatever that record's iteration value *)
C10_PositionAlignment ==
    Returned =>
        \A i \in Positions : \A w \in WorkerIds :
            /\ w \in SummedWorkers(i) <=> Len(history_executor(history, w)) >= i
            /\ \A k \in 1..Len(averaged.summed[i]) :
                  averaged.summed[i][k].worker = w
                  => averaged.summed[i][k].record = history_executor(history, w)[i]

====
